---- MODULE Spec2Model ----
(***************************************************************************)
(* Model of k8sutils/redis-cluster-cmd-handler.go: the command server and  *)
(* the cluster formation / failover orchestration it triggers.             *)
(*                                                                         *)
(* Text is modelled as a sequence of atoms (short strings); a node table   *)
(* text is a sequence of lines, a line a sequence of fields, a field a     *)
(* sequence of atoms.  Every remote call (pod lookup, redis command, host  *)
(* exec) is one step whose outcome the environment chooses.                *)
(***************************************************************************)
EXTENDS Integers, Sequences, FiniteSets, TLC

VARIABLES st, log, topology, ipv6, faults

vars == <<st, log, topology, ipv6, faults>>

\* ---------------------------------------------------------------- bounds
MaxLeaders == 3
MaxFollowers == 1
MaxFaults == 2
MaxCalls == 2
MaxInterleave == 4
MaxRows == 3
MaxReplicas == 2
MaxJoins == 1

Runs == {1, 2}
Clusters == {"c1", "c2"}
Roles == {"leader", "follower"}

\* ---------------------------------------------------------------- text
Contains(s, sub) ==
    \E i \in 0..(Len(s) - Len(sub)) :
        \A k \in 1..Len(sub) : s[i + k] = sub[k]

TextContains(text, sub) ==
    \E l \in 1..Len(text) : \E f \in 1..Len(text[l]) : Contains(text[l][f], sub)

\* ---------------------------------------------------------------- nodes
Node(role, ord) == [role |-> role, ord |-> ord]

NoNode == [role |-> "", ord |-> 0]

NoErr == [cmd |-> "nil", node |-> NoNode]

Error(cmd, node) == [cmd |-> cmd, node |-> node]

Tag(n) == (IF n.role = "leader" THEN "L" ELSE "F") \o ToString(n.ord)

\* the address the runtime reports for a pod: IPv4 or IPv6 by cluster family
PodIP(n) == IF ipv6 THEN <<"fd00", ":", ":", Tag(n)>> ELSE <<"10.0.0", ".", Tag(n)>>

\* net.ParseIP(ip).To4() == nil : not an IPv4 dotted address (or no address)
To4IsNil(ip) == ~ (Len(ip) > 0 /\ Contains(ip, <<".">>) /\ ~Contains(ip, <<":">>))

\* found = FALSE: the pod lookup failed; the error is logged and the empty pod is used
getRedisServerIP(n, found) ==
    LET redisIP == IF found THEN PodIP(n) ELSE <<>>
    IN  IF To4IsNil(redisIP) THEN <<"[">> \o redisIP \o <<"]">> ELSE redisIP

\* ---------------------------------------------------------------- log
Entry(r, s, cmd, node, addr, arg, ok, res) ==
    [run |-> r, cluster |-> s.cluster, cmd |-> cmd, node |-> node, addr |-> addr,
     arg |-> arg, ok |-> ok, res |-> res, peer |-> NoNode, call |-> s.calls]

Cost(b) == IF b THEN 0 ELSE 1

\* ---------------------------------------------------------------- run state
IdleRun ==
    [pc |-> "idle", op |-> "", http |-> FALSE, cluster |-> "c1",
     cr |-> [leader |-> 0, follower |-> 0], role |-> "", podCount |-> 0,
     addr |-> <<>>, ret |-> NoErr, resp |-> 0, body |-> NoErr, fetched |-> FALSE,
     text |-> <<>>, nodeIds |-> <<>>, nodeCount |-> 0, rootPod |-> 0,
     nodes |-> <<>>, calls |-> 0, nodeType |-> "", count |-> 0,
     nodeName |-> <<>>, present |-> FALSE]

CRs == [leader : 0..MaxLeaders, follower : 0..MaxFollowers]

Respond_AlwaysOK(s, err) ==
    IF s.http THEN [s EXCEPT !.resp = 200, !.body = err] ELSE s

\* send / sendError at the end of a handler: 200 {"status":"OK"} or 500 with the error
Respond(s, err) ==
    IF s.http
    THEN [s EXCEPT !.resp = IF err # NoErr THEN 500 ELSE 200, !.body = err]
    ELSE s

\* the operation returns err to its caller
Done(s, err) == Respond([s EXCEPT !.pc = "done", !.ret = err], err)

\* ---------------------------------------------------------------- forced failover
RECURSIVE EnterFailover(_, _)
RECURSIVE ReturnFailover(_, _)

ReturnFailover_IgnoreLeaderErr(s, err) ==
    IF s.op = "force"
    THEN IF s.role = "leader" THEN EnterFailover(s, "follower") ELSE Done(s, err)
    ELSE Done(s, NoErr)

ReturnFailover_Propagate(s, err) ==
    IF s.op = "force"
    THEN IF s.role = "leader"
         THEN IF err # NoErr THEN Done(s, err) ELSE EnterFailover(s, "follower")
         ELSE Done(s, err)
    ELSE Done(s, err)

\* executeFailoverCommand(cr, role) returned err: back in its caller
ReturnFailover(s, err) ==
    IF s.op = "force"
    THEN IF s.role = "leader"
         THEN IF err # NoErr THEN Done(s, err) ELSE EnterFailover(s, "follower")
         ELSE Done(s, err)
    ELSE Done(s, NoErr)

\* executeFailoverCommand(cr, role): loop entry
EnterFailover(s, role) ==
    LET t == [s EXCEPT !.role = role, !.podCount = 0]
    IN  IF s.cr[role] = 0 THEN ReturnFailover(t, NoErr)
        ELSE [t EXCEPT !.pc = "fo_reset"]

\* end of one loop iteration of executeFailoverCommand
NextFailoverPod(s) ==
    IF s.podCount + 1 <= s.cr[s.role] - 1
    THEN [s EXCEPT !.pc = "fo_reset", !.podCount = s.podCount + 1]
    ELSE ReturnFailover(s, NoErr)

ExecuteFailoverOperation(r) ==
    /\ st[r].pc = "idle"
    /\ \E cr \in CRs :
         st' = [st EXCEPT ![r] =
                  EnterFailover([st[r] EXCEPT !.op = "force", !.cr = cr], "leader")]
    /\ UNCHANGED <<log, topology, ipv6, faults>>

\* line 356: the first reset failed -> flushall, else straight to line 365
ResetOutcome(s, ok) == [s EXCEPT !.pc = IF ok THEN "fo_reset2" ELSE "fo_flush"]

FlushOutcome_SkipReset(s, n, ok) ==
    IF ok THEN NextFailoverPod(s) ELSE ReturnFailover(s, Error("FLUSHALL", n))

FlushOutcome_Continue(s, n, ok) == [s EXCEPT !.pc = "fo_reset2"]

\* lines 359-365: a failed flushall returns its error, a successful one falls through
FlushOutcome(s, n, ok) ==
    IF ok THEN [s EXCEPT !.pc = "fo_reset2"] ELSE ReturnFailover(s, Error("FLUSHALL", n))

\* lines 365-375: the reset processed again; its error (also seen by cmd.Result) returns
ResetAgainOutcome(s, n, ok) ==
    IF ok THEN NextFailoverPod(s) ELSE ReturnFailover(s, Error("RESET", n))

\* configureRedisClient, then the first "cluster reset"
FailoverReset(r) ==
    LET s == st[r]
        n == Node(s.role, s.podCount)
    IN  /\ s.pc = "fo_reset"
        /\ \E found \in BOOLEAN, ok \in BOOLEAN :
             LET addr == getRedisServerIP(n, found)
             IN  /\ faults + Cost(found) + Cost(ok) <= MaxFaults
                 /\ faults' = faults + Cost(found) + Cost(ok)
                 /\ log' = Append(log, Entry(r, s, "RESET", n, addr, <<>>, ok, <<>>))
                 /\ st' = [st EXCEPT ![r] = ResetOutcome([s EXCEPT !.addr = addr], ok)]
        /\ UNCHANGED <<topology, ipv6>>

\* the fallback "flushall" after a failed reset
FailoverFlush(r) ==
    LET s == st[r]
        n == Node(s.role, s.podCount)
    IN  /\ s.pc = "fo_flush"
        /\ \E ok \in BOOLEAN :
             /\ faults + Cost(ok) <= MaxFaults
             /\ faults' = faults + Cost(ok)
             /\ log' = Append(log, Entry(r, s, "FLUSHALL", n, s.addr, <<>>, ok, <<>>))
             /\ st' = [st EXCEPT ![r] = FlushOutcome(s, n, ok)]
        /\ UNCHANGED <<topology, ipv6>>

\* the reset command processed again, then cmd.Result()
FailoverResetAgain(r) ==
    LET s == st[r]
        n == Node(s.role, s.podCount)
    IN  /\ s.pc = "fo_reset2"
        /\ \E ok \in BOOLEAN :
             /\ faults + Cost(ok) <= MaxFaults
             /\ faults' = faults + Cost(ok)
             /\ log' = Append(log, Entry(r, s, "RESET", n, s.addr, <<>>, ok, <<>>))
             /\ st' = [st EXCEPT ![r] = ResetAgainOutcome(s, n, ok)]
        /\ UNCHANGED <<topology, ipv6>>

\* ---------------------------------------------------------------- node tables
QUOTE == "\""

\* one line of a "cluster nodes" reply: id, ip:port@busport, flags, master id,
\* ping-sent, pong-recv, config-epoch, link-state
Row(id, ip, flags, link) ==
    << <<id>>, ip \o <<":", "6379@16379">>, flags, <<"-">>, <<"0">>, <<"0">>, <<"1">>, link >>

MASTER == <<"master">>
SLAVE == <<"slave">>
MYSELF_MASTER == <<"myself", ",", "master">>
MYSELF_SLAVE == <<"myself", ",", "slave">>
CONNECTED == <<"connected">>

\* the reply of a healthy leader: itself as master and its replica
LeaderTable ==
    << Row("ida", <<"10.0.0", ".", "1">>, MYSELF_MASTER, CONNECTED),
       Row("idb", <<"10.0.0", ".", "2">>, SLAVE, CONNECTED) >>

\* the reply of a healthy follower: itself as slave and its master
FollowerTable ==
    << Row("idc", <<"10.0.0", ".", "3">>, MYSELF_SLAVE, CONNECTED),
       Row("ida", <<"10.0.0", ".", "1">>, MASTER, CONNECTED) >>

\* replies a node may give to "cluster nodes" during recovery
NodesResults ==
    { LeaderTable, FollowerTable, <<>>,
      << Row("idd", <<"10.0.0", ".", "4">>, MYSELF_MASTER, CONNECTED),
         << <<"ide", QUOTE>> >> >>,
      << << <<"idf", QUOTE>>, <<"x">>, MYSELF_SLAVE >> >> }

\* the reply expected of node n while nothing has gone wrong
Nominal(n) == IF n.role = "leader" THEN LeaderTable ELSE FollowerTable

\* csv.Reader with Comma = ' ', FieldsPerRecord = -1: a quote inside an unquoted
\* field is an error (no field of a reply read here starts with a quote)
ParseErr(text) ==
    \E l \in 1..Len(text) : \E f \in 1..Len(text[l]) : Contains(text[l][f], <<QUOTE>>)

\* csv ReadAll: the records are the non-empty lines
csvRecords(text) == SelectSeq(text, LAMBDA line : Len(line) > 0)

getNodeIds_Others(text) ==
    LET recs == csvRecords(text)
    IN  [i \in 1..(Len(recs) - 1) |-> recs[i + 1][1]]

\* getNodeIds: field 0 of every record
getNodeIds(text) ==
    LET recs == csvRecords(text)
    IN  [i \in 1..Len(recs) |-> recs[i][1]]

\* ---------------------------------------------------------------- graceful recovery
EnterMesh_ResetLeaders(s) ==
    IF 0 <= s.cr.leader - 2
    THEN [s EXCEPT !.pc = "mc_meet", !.role = "leader", !.rootPod = 0, !.podCount = 1]
    ELSE EnterFailover(s, "leader")

\* executeMasterClusterCreation: loop entry, then the follower reattachment
EnterMesh(s) ==
    IF 0 <= s.cr.leader - 2
    THEN [s EXCEPT !.pc = "mc_meet", !.role = "leader", !.rootPod = 0, !.podCount = 1]
    ELSE EnterFailover(s, "follower")

NextMeet_Ring(s) ==
    IF s.rootPod + 1 <= s.cr.leader - 2
    THEN [s EXCEPT !.rootPod = s.rootPod + 1, !.podCount = s.rootPod + 2]
    ELSE EnterFailover(s, "follower")

\* executeMasterClusterCreation: inner, then outer loop increment
NextMeet(s) ==
    IF s.podCount + 1 <= s.cr.leader - 1
    THEN [s EXCEPT !.podCount = s.podCount + 1]
    ELSE IF s.rootPod + 1 <= s.cr.leader - 2
         THEN [s EXCEPT !.rootPod = s.rootPod + 1, !.podCount = s.rootPod + 2]
         ELSE EnterFailover(s, "follower")

RECURSIVE EnterForget(_, _)
RECURSIVE ReturnForget(_, _)

ReturnForget_IgnoreErr(s, err) ==
    IF s.role = "leader" THEN EnterForget(s, "follower") ELSE EnterMesh(s)

ReturnForget_MeshFirst(s, err) ==
    IF err # NoErr THEN Done(s, err)
    ELSE IF s.role = "leader" THEN EnterMesh(s) ELSE EnterMesh(s)

\* executeClusterForget(cr, role) returned err: back in ExecuteGracefulFailOverOperation
ReturnForget(s, err) ==
    IF err # NoErr THEN Done(s, err)
    ELSE IF s.role = "leader" THEN EnterForget(s, "follower") ELSE EnterMesh(s)

\* executeClusterForget(cr, role): loop entry
EnterForget(s, role) ==
    LET t == [s EXCEPT !.role = role, !.podCount = 0]
    IN  IF s.cr[role] = 0 THEN ReturnForget(t, NoErr)
        ELSE [t EXCEPT !.pc = "fg_nodes"]

\* end of one iteration of the pod loop of executeClusterForget
NextForgetPod(s) ==
    IF s.podCount + 1 <= s.cr[s.role] - 1
    THEN [s EXCEPT !.pc = "fg_nodes", !.podCount = s.podCount + 1]
    ELSE ReturnForget(s, NoErr)

\* lines 317-325: getNodeIds, then the forget loop
AfterTakeover(s, n) ==
    IF ParseErr(s.text) THEN ReturnForget(s, Error("PARSE", n))
    ELSE LET ids == getNodeIds(s.text)
         IN  IF Len(ids) = 0 THEN NextForgetPod(s)
             ELSE [s EXCEPT !.pc = "fg_forget", !.nodeIds = ids, !.nodeCount = 0]

NodesOutcome_AnySlave(s, n, ok) ==
    IF ~ok THEN ReturnForget(s, Error("NODES", n))
    ELSE IF TextContains(s.text, SLAVE) THEN [s EXCEPT !.pc = "fg_takeover"]
         ELSE AfterTakeover(s, n)

\* lines 301-316: the outcome of "cluster nodes"
NodesOutcome(s, n, ok) ==
    IF ~ok THEN ReturnForget(s, Error("NODES", n))
    ELSE IF TextContains(s.text, MYSELF_SLAVE) THEN [s EXCEPT !.pc = "fg_takeover"]
         ELSE AfterTakeover(s, n)

ExecuteGracefulFailOverOperation(r) ==
    /\ st[r].pc = "idle"
    /\ \E cr \in CRs :
         st' = [st EXCEPT ![r] =
                  EnterForget([st[r] EXCEPT !.op = "graceful", !.cr = cr], "leader")]
    /\ UNCHANGED <<log, topology, ipv6, faults>>

\* configureRedisClient, then "cluster nodes" on the node itself
ForgetNodes(r) ==
    LET s == st[r]
        n == Node(s.role, s.podCount)
    IN  /\ s.pc = "fg_nodes"
        /\ \E found \in BOOLEAN, ok \in BOOLEAN, text \in NodesResults :
             LET addr == getRedisServerIP(n, found)
                 res == IF ok THEN text ELSE <<>>
                 c == Cost(found) + Cost(ok) + Cost(~ok \/ text = Nominal(n))
             IN  /\ ~ok => text = <<>>
                 /\ faults + c <= MaxFaults
                 /\ faults' = faults + c
                 /\ log' = Append(log, Entry(r, s, "NODES", n, addr, <<>>, ok, res))
                 /\ st' = [st EXCEPT ![r] =
                             NodesOutcome([s EXCEPT !.addr = addr, !.text = res], n, ok)]
        /\ UNCHANGED <<topology, ipv6>>

\* "CLUSTER FAILOVER TAKEOVER" on a node that reports itself a slave
ForgetTakeover(r) ==
    LET s == st[r]
        n == Node(s.role, s.podCount)
    IN  /\ s.pc = "fg_takeover"
        /\ \E ok \in BOOLEAN :
             /\ faults + Cost(ok) <= MaxFaults
             /\ faults' = faults + Cost(ok)
             /\ log' = Append(log, Entry(r, s, "TAKEOVER", n, s.addr, <<>>, ok, <<>>))
             /\ st' = [st EXCEPT ![r] =
                         IF ok THEN AfterTakeover(s, n)
                         ELSE ReturnForget(s, Error("TAKEOVER", n))]
        /\ UNCHANGED <<topology, ipv6>>

\* "CLUSTER FORGET <id>" for the next id of the node's own table; the result is dropped
ForgetNode(r) ==
    LET s == st[r]
        n == Node(s.role, s.podCount)
    IN  /\ s.pc = "fg_forget"
        /\ \E ok \in BOOLEAN :
             /\ faults + Cost(ok) <= MaxFaults
             /\ faults' = faults + Cost(ok)
             /\ log' = Append(log, Entry(r, s, "FORGET", n, s.addr,
                                         s.nodeIds[s.nodeCount + 1], ok, <<>>))
             /\ st' = [st EXCEPT ![r] =
                         IF s.nodeCount + 1 <= Len(s.nodeIds) - 1
                         THEN [s EXCEPT !.nodeCount = s.nodeCount + 1]
                         ELSE NextForgetPod(s)]
        /\ UNCHANGED <<topology, ipv6>>

\* "cluster meet <ip> 6379" from leader rootPod to leader podCount; the result is only logged
ClusterMeet(r) ==
    LET s == st[r]
        root == Node("leader", s.rootPod)
        cur == Node("leader", s.podCount)
    IN  /\ s.pc = "mc_meet"
        /\ \E foundRoot \in BOOLEAN, found \in BOOLEAN, ok \in BOOLEAN :
             LET addr == IF s.podCount = s.rootPod + 1
                         THEN getRedisServerIP(root, foundRoot) ELSE s.addr
                 ip == getRedisServerIP(cur, found)
                 c == Cost(foundRoot) + Cost(found) + Cost(ok)
             IN  /\ s.podCount # s.rootPod + 1 => foundRoot
                 /\ faults + c <= MaxFaults
                 /\ faults' = faults + c
                 /\ log' = Append(log, [Entry(r, s, "MEET", root, addr, ip, ok, <<>>)
                                           EXCEPT !.peer = cur])
                 /\ st' = [st EXCEPT ![r] = NextMeet([s EXCEPT !.addr = addr])]
        /\ UNCHANGED <<topology, ipv6>>

\* ---------------------------------------------------------------- command server
\* recoverCluster: cl.Get of the RedisCluster, then ExecuteGracefulFailOverOperation;
\* store is the set of cluster specs the API server may hold
resetClusterHandler(r, store) ==
    LET s0 == st[r]
    IN  /\ s0.pc = "idle"
        /\ \E cluster \in Clusters, fetched \in BOOLEAN, cr \in store :
             LET s == [s0 EXCEPT !.http = TRUE, !.op = "graceful", !.cluster = cluster,
                                 !.fetched = fetched]
             IN  /\ faults + Cost(fetched) <= MaxFaults
                 /\ faults' = faults + Cost(fetched)
                 /\ ~fetched => cr = [leader |-> 0, follower |-> 0]
                 /\ st' = [st EXCEPT ![r] =
                             IF fetched THEN EnterForget([s EXCEPT !.cr = cr], "leader")
                             ELSE Done(s, Error("GET", NoNode))]
        /\ UNCHANGED <<log, topology, ipv6>>

\* forceRecoverCluster: cl.Get of the RedisCluster, then ExecuteFailoverOperation
forceResetClusterHandler(r, store) ==
    LET s0 == st[r]
    IN  /\ s0.pc = "idle"
        /\ \E cluster \in Clusters, fetched \in BOOLEAN, cr \in store :
             LET s == [s0 EXCEPT !.http = TRUE, !.op = "force", !.cluster = cluster,
                                 !.fetched = fetched]
             IN  /\ faults + Cost(fetched) <= MaxFaults
                 /\ faults' = faults + Cost(fetched)
                 /\ ~fetched => cr = [leader |-> 0, follower |-> 0]
                 /\ st' = [st EXCEPT ![r] =
                             IF fetched THEN EnterFailover([s EXCEPT !.cr = cr], "leader")
                             ELSE Done(s, Error("GET", NoNode))]
        /\ UNCHANGED <<log, topology, ipv6>>

\* ---------------------------------------------------------------- formation
\* strings.Split(s, sep)[0]: the part before the first separator
SplitFirst(s, sep) ==
    IF \E i \in 1..Len(s) : s[i] = sep
    THEN SubSeq(s, 1, (CHOOSE i \in 1..Len(s) : s[i] = sep /\ \A j \in 1..(i - 1) : s[j] # sep) - 1)
    ELSE s

checkRedisNodePresence_FirstRow(nodeList, nodeName) ==
    Len(nodeList) > 0 /\ SplitFirst(nodeList[1][2], ":") = nodeName

\* checkRedisNodePresence: some row's address, cut at the first ":", equals nodeName
checkRedisNodePresence(nodeList, nodeName) ==
    \E i \in 1..Len(nodeList) : SplitFirst(nodeList[i][2], ":") = nodeName

\* a reply that csv cannot read
Garbage == << << <<"idg", QUOTE>> >> >>

\* checkRedisCluster: errors are logged; a failed read or parse leaves no records
checkRedisCluster(ok, output) ==
    IF ~ok \/ ParseErr(output) THEN <<>> ELSE csvRecords(output)

\* the line a node shows for pod n once it has joined the cluster
MemberRow(n) ==
    Row("id" \o Tag(n), PodIP(n),
        IF n.role = "leader" THEN MASTER ELSE SLAVE, CONNECTED)

\* the cluster specs formation is run with: a shard may have several followers
FormationCRs ==
    {cr \in [leader : 0..MaxLeaders, follower : 0..MaxReplicas] : cr.follower <= cr.leader}

\* the rows of table plus the row of pod n, unless it is a member already
Joined(table, n) ==
    IF \E i \in 1..Len(table) : table[i] = MemberRow(n) THEN table
    ELSE Append(table, MemberRow(n))

\* ExecuteRedisClusterCommand: resolve every leader, then one "--cluster create"
\* through host exec on leader-0
ExecuteRedisClusterCommand(r) ==
    LET s0 == st[r]
    IN  /\ s0.pc = "idle"
        /\ \E cr \in FormationCRs, ok \in BOOLEAN :
           \E found \in [0..(cr.leader - 1) -> BOOLEAN] :
             LET s == [s0 EXCEPT !.op = "create", !.cr = cr]
                 addrs == [k \in 1..cr.leader |->
                              getRedisServerIP(Node("leader", k - 1), found[k - 1])
                                  \o <<":", "6379">>]
                 misses == Cardinality({k \in 0..(cr.leader - 1) : ~found[k]})
                 formed == ok /\ misses = 0
             IN  /\ faults + misses + Cost(ok) <= MaxFaults
                 /\ faults' = faults + misses + Cost(ok)
                 /\ log' = Append(log, Entry(r, s, "CREATE", Node("leader", 0), <<>>,
                                             addrs, ok, <<>>))
                 /\ topology' = IF formed
                                THEN [k \in 1..cr.leader |-> MemberRow(Node("leader", k - 1))]
                                ELSE topology
                 /\ st' = [st EXCEPT ![r] = [s EXCEPT !.pc = "done"]]
        /\ UNCHANGED ipv6

NextReplicationPod_Stride(s) ==
    IF s.podCount + 2 <= s.cr.follower - 1
    THEN [s EXCEPT !.podCount = s.podCount + 2]
    ELSE [s EXCEPT !.pc = "done"]

\* end of one iteration of the follower loop of ExecuteRedisReplicationCommand
NextReplicationPod(s) ==
    IF s.podCount + 1 <= s.cr.follower - 1
    THEN [s EXCEPT !.podCount = s.podCount + 1]
    ELSE [s EXCEPT !.pc = "done"]

\* ExecuteRedisReplicationCommand, line 193: the topology of leader-0 is read once
ExecuteRedisReplicationCommand(r) ==
    LET s0 == st[r]
        n == Node("leader", 0)
    IN  /\ s0.pc \in {"idle", "done"}
        /\ s0.op \in {"", "create", "replicate"}
        /\ s0.calls < MaxCalls
        /\ \E cr \in FormationCRs, found \in BOOLEAN, ok \in BOOLEAN,
              reply \in {topology, Garbage} :
             LET s == [s0 EXCEPT !.op = "replicate", !.cr = cr, !.calls = s0.calls + 1,
                                 !.role = "follower", !.podCount = 0]
                 addr == getRedisServerIP(n, found)
                 output == IF ok THEN reply ELSE <<>>
                 c == Cost(found) + Cost(ok) + Cost(~ok \/ reply = topology)
             IN  /\ s0.pc = "done" => cr = s0.cr
                 /\ ~ok => reply = topology
                 /\ faults + c <= MaxFaults
                 /\ faults' = faults + c
                 /\ log' = Append(log, Entry(r, s, "NODES", n, addr, <<>>, ok, output))
                 /\ st' = [st EXCEPT ![r] =
                             LET t == [s EXCEPT !.addr = addr,
                                                !.nodes = checkRedisCluster(ok, output)]
                             IN  IF 0 <= cr.follower - 1 THEN [t EXCEPT !.pc = "rp_follower"]
                                 ELSE [t EXCEPT !.pc = "done"]]
        /\ UNCHANGED <<topology, ipv6>>

\* lines 203-210, follower already present: the add-node is skipped
ReplicationSkip(r) ==
    LET s == st[r]
        follower == Node("follower", s.podCount)
    IN  /\ s.pc = "rp_follower"
        /\ \E found \in BOOLEAN :
             /\ checkRedisNodePresence(s.nodes, getRedisServerIP(follower, found))
             /\ faults + Cost(found) <= MaxFaults
             /\ faults' = faults + Cost(found)
             /\ st' = [st EXCEPT ![r] = NextReplicationPod(s)]
        /\ UNCHANGED <<log, topology, ipv6>>

\* lines 203-207, follower not in the table read at line 193: "--cluster add-node
\* <follower> <leader> --cluster-slave" through host exec on leader-0
ReplicationAdd(r) ==
    LET s == st[r]
        follower == Node("follower", s.podCount)
        leader == Node("leader", s.podCount)
    IN  /\ s.pc = "rp_follower"
        /\ \E found \in BOOLEAN, foundF \in BOOLEAN, foundL \in BOOLEAN, ok \in BOOLEAN :
             LET c == Cost(found) + Cost(foundF) + Cost(foundL) + Cost(ok)
                 args == << getRedisServerIP(follower, foundF) \o <<":", "6379">>,
                            getRedisServerIP(leader, foundL) \o <<":", "6379">> >>
             IN  /\ ~checkRedisNodePresence(s.nodes, getRedisServerIP(follower, found))
                 /\ faults + c <= MaxFaults
                 /\ faults' = faults + c
                 /\ log' = Append(log, [Entry(r, s, "ADDNODE", Node("leader", 0), <<>>,
                                              args, ok, <<>>) EXCEPT !.peer = follower])
                 /\ topology' = IF ok /\ foundF /\ foundL
                                THEN Joined(topology, follower)
                                ELSE topology
                 /\ st' = [st EXCEPT ![r] = NextReplicationPod(s)]
        /\ UNCHANGED ipv6

\* the followers leader-0 lists that no add-node of the log attached
BusJoined ==
    {k \in 0..(MaxReplicas - 1) :
        /\ Joined(topology, Node("follower", k)) = topology
        /\ ~\E i \in 1..Len(log) :
               log[i].cmd = "ADDNODE" /\ log[i].ok /\ log[i].peer = Node("follower", k)}

\* the cluster bus: leader-0 comes to list a follower pod that joined the
\* cluster through another node; its next "cluster nodes" reply shows it
MemberJoins ==
    /\ Cardinality(BusJoined) < MaxJoins
    /\ \E k \in 0..(MaxReplicas - 1) :
         /\ Joined(topology, Node("follower", k)) # topology
         /\ topology' = Joined(topology, Node("follower", k))
    /\ UNCHANGED <<st, log, ipv6, faults>>

\* ---------------------------------------------------------------- topology reader
FAIL == <<"fail">>
DISCONNECTED == <<"dis", "connected">>

\* the flag fields of the tables read here: "master", "slave", "master,fail",
\* "myself,slave", "slave,fail?" and "master,nofailover"
ReaderFlags ==
    { MASTER, SLAVE, <<"master", ",", "fail">>, MYSELF_SLAVE,
      <<"slave", ",", "fail", "?">>, <<"master", ",", "no", "fail", "over">> }

\* lines of a "cluster nodes" reply: eight fields, slot ranges may follow
ReaderRows ==
    { Row("id1", <<"10.0.0", ".", "F0">>, MASTER, CONNECTED) \o << <<"0-5460">> >>,
      Row("id2", <<"10.0.0", ".", "F1">>, <<"master", ",", "fail">>, CONNECTED),
      Row("id3", <<"10.0.0", ".", "L0">>, SLAVE, DISCONNECTED),
      Row("id4", <<"fd00", ":", ":", "F0">>, MYSELF_SLAVE, CONNECTED),
      Row("id5", <<"fd00", ":", ":", "F1">>, <<"master", ",", "fail">>, DISCONNECTED),
      Row("id6", <<"10.0.0", ".", "L1">>, <<"master", ",", "no", "fail", "over">>, CONNECTED),
      Row("id7", <<"10.0.0", ".", "L2">>, <<"slave", ",", "fail", "?">>, CONNECTED)
          \o << <<"5461-10922">>, <<"10923-16383">> >> }

RECURSIVE TablesOf(_)
\* the tables of exactly n rows
TablesOf(n) ==
    IF n = 0 THEN {<<>>}
    ELSE {Append(t, row) : t \in TablesOf(n - 1), row \in ReaderRows}

\* the replies leader-0 may give to "cluster nodes"
ReaderTables == UNION {TablesOf(n) : n \in 0..MaxRows}

\* the role filters callers pass to CheckRedisNodeCount
NodeTypes == {"", "leader", "follower", "master", "myself"}

redisNodeType_Unmapped(nodeType) == <<nodeType>>

\* lines 387-394: leader -> master, follower -> slave, anything else as it is
redisNodeType(nodeType) ==
    IF nodeType = "leader" THEN MASTER
    ELSE IF nodeType = "follower" THEN SLAVE
    ELSE <<nodeType>>

RECURSIVE countByType(_, _, _)
\* lines 397-401: the loop over the rows from row i on, testing node[2]
countByType(clusterNodes, i, sub) ==
    IF i > Len(clusterNodes) THEN 0
    ELSE (IF Contains(clusterNodes[i][3], sub) THEN 1 ELSE 0)
             + countByType(clusterNodes, i + 1, sub)

\* lines 385-406: the total for an empty filter, else the rows of the mapped role
countNodes(clusterNodes, nodeType) ==
    IF nodeType # "" THEN countByType(clusterNodes, 1, redisNodeType(nodeType))
    ELSE Len(clusterNodes)

RECURSIVE countFailed_Both(_, _)
countFailed_Both(clusterNodes, i) ==
    IF i > Len(clusterNodes) THEN 0
    ELSE (IF Contains(clusterNodes[i][3], FAIL) THEN 1 ELSE 0)
             + (IF Contains(clusterNodes[i][8], DISCONNECTED) THEN 1 ELSE 0)
             + countFailed_Both(clusterNodes, i + 1)

RECURSIVE countFailed(_, _)
\* lines 413-419: the loop over the rows from row i on, testing node[2] and node[7]
countFailed(clusterNodes, i) ==
    IF i > Len(clusterNodes) THEN 0
    ELSE (IF Contains(clusterNodes[i][3], FAIL) \/ Contains(clusterNodes[i][8], DISCONNECTED)
          THEN 1 ELSE 0)
             + countFailed(clusterNodes, i + 1)

\* checkRedisCluster on leader-0 as every reader starts: the rows it hands back
ReadNodes(r, s, found, ok, reply, lookups) ==
    LET n == Node("leader", 0)
        output == IF ok THEN reply ELSE <<>>
        c == Cost(found) + Cost(ok) + Cost(~ok \/ reply = topology) + lookups
    IN  /\ ~ok => reply = topology
        /\ faults + c <= MaxFaults
        /\ faults' = faults + c
        /\ log' = Append(log, Entry(r, s, "NODES", n, getRedisServerIP(n, found),
                                    <<>>, ok, output))

\* CheckRedisClusterState: read the table of leader-0, count the failed rows
CheckRedisClusterState(r) ==
    LET s0 == st[r]
    IN  /\ s0.pc = "idle"
        /\ \E found \in BOOLEAN, ok \in BOOLEAN, reply \in {topology, Garbage} :
             LET s == [s0 EXCEPT !.op = "state"]
                 clusterNodes == checkRedisCluster(ok, IF ok THEN reply ELSE <<>>)
             IN  /\ ReadNodes(r, s, found, ok, reply, 0)
                 /\ st' = [st EXCEPT ![r] =
                             [s EXCEPT !.pc = "done", !.nodes = clusterNodes,
                                       !.count = countFailed(clusterNodes, 1)]]
        /\ UNCHANGED <<topology, ipv6>>

\* CheckRedisNodeCount: read the table of leader-0, count the rows of a role
CheckRedisNodeCount(r) ==
    LET s0 == st[r]
    IN  /\ s0.pc = "idle"
        /\ \E nodeType \in NodeTypes :
           \E found \in BOOLEAN, ok \in BOOLEAN, reply \in {topology, Garbage} :
             LET s == [s0 EXCEPT !.op = "count", !.nodeType = nodeType]
                 clusterNodes == checkRedisCluster(ok, IF ok THEN reply ELSE <<>>)
             IN  /\ ReadNodes(r, s, found, ok, reply, 0)
                 /\ st' = [st EXCEPT ![r] =
                             [s EXCEPT !.pc = "done", !.nodes = clusterNodes,
                                       !.count = countNodes(clusterNodes, nodeType)]]
        /\ UNCHANGED <<topology, ipv6>>

\* lines 193, 203, 204: read the table of leader-0, resolve a follower, look it up
NodePresence(r) ==
    LET s0 == st[r]
    IN  /\ s0.pc = "idle"
        /\ \E k \in 0..MaxFollowers, foundF \in BOOLEAN :
           \E found \in BOOLEAN, ok \in BOOLEAN, reply \in {topology, Garbage} :
             LET s == [s0 EXCEPT !.op = "presence"]
                 nodes == checkRedisCluster(ok, IF ok THEN reply ELSE <<>>)
                 podIP == getRedisServerIP(Node("follower", k), foundF)
             IN  /\ ReadNodes(r, s, found, ok, reply, Cost(foundF))
                 /\ st' = [st EXCEPT ![r] =
                             [s EXCEPT !.pc = "done", !.nodes = nodes, !.nodeName = podIP,
                                       !.present = checkRedisNodePresence(nodes, podIP)]]
        /\ UNCHANGED <<topology, ipv6>>

\* ---------------------------------------------------------------- forced failover: claims
FailoverCmds == {"RESET", "FLUSHALL"}

\* the reset / flushall commands run r sent to node n, in order
NodeCmds(r, n) ==
    SelectSeq(log, LAMBDA e : e.run = r /\ e.node = n /\ e.cmd \in FailoverCmds)

LeaderNodes(s) == {Node("leader", k) : k \in 0..(s.cr.leader - 1)}

\* the i-th command of the log is the first one its run sent to that node
FirstToNode(i) ==
    \A j \in 1..(i - 1) : ~(log[j].run = log[i].run /\ log[j].node = log[i].node)

\* a failure that ends the processing of a node: a failed flushall, or a failed
\* reset that is not the first command to the node
FatalAt(i) ==
    /\ ~log[i].ok
    /\ \/ log[i].cmd = "FLUSHALL"
       \/ log[i].cmd = "RESET" /\ ~FirstToNode(i)

\* node n was processed to the end without a fatal error before position i
ProcessedBefore(n, i) ==
    \E j \in 1..(i - 1) :
        /\ log[j].node = n /\ log[j].cmd = "RESET" /\ log[j].ok /\ ~FirstToNode(j)
        /\ \A k \in 1..(i - 1) : log[k].node = n => ~FatalAt(k)

\* C1: in forced failover a follower receives a command only after every leader
\* was processed without a fatal error; a fatal error on a leader means no
\* follower command at all and that error is what the operation returns.
LeadersBeforeFollowers_C1 ==
    LET s == st[1]
    IN  s.op = "force" =>
        /\ \A i \in 1..Len(log) :
              log[i].node.role = "follower" =>
                  \A n \in LeaderNodes(s) : ProcessedBefore(n, i)
        /\ \A i \in 1..Len(log) :
              (log[i].node.role = "leader" /\ FatalAt(i)) =>
                  /\ \A j \in 1..Len(log) : log[j].node.role # "follower"
                  /\ s.pc = "done"
                  /\ s.ret = Error(log[i].cmd, log[i].node)

\* leader ordinal 1 failed fatally while a follower ordinal 0 exists
Witness_C1 ==
    /\ st[1].op = "force" /\ st[1].pc = "done" /\ st[1].cr.follower >= 1
    /\ \E i \in 1..Len(log) : log[i].node = Node("leader", 1) /\ FatalAt(i)

\* C2 as stated: after a failed first reset and a successful flushall the node
\* gets no second reset (its command sequence is exactly RESET, FLUSHALL).
NoSecondReset_C2 ==
    \A role \in Roles, k \in 0..MaxFollowers + MaxLeaders :
        LET c == NodeCmds(1, Node(role, k))
        IN  (st[1].op = "force" /\ Len(c) >= 2 /\ ~c[1].ok /\ c[2].cmd = "FLUSHALL" /\ c[2].ok)
                => Len(c) = 2

\* C2 amended: after a failed first reset and a successful flushall the reset is
\* issued once more (RESET, FLUSHALL, RESET); the node completes without error
\* iff that second reset succeeds, otherwise the operation returns its error.
ResetAfterFlush_C2 ==
    \A role \in Roles, k \in 0..MaxFollowers + MaxLeaders :
        LET n == Node(role, k)
            c == NodeCmds(1, n)
            s == st[1]
        IN  (s.op = "force" /\ Len(c) >= 2 /\ ~c[1].ok /\ c[2].cmd = "FLUSHALL" /\ c[2].ok)
                => /\ Len(c) <= 3
                   /\ Len(c) = 2 => (s.pc = "fo_reset2" /\ Node(s.role, s.podCount) = n)
                   /\ Len(c) = 3 =>
                        /\ c[3].cmd = "RESET"
                        /\ c[3].ok => s.ret.node # n
                        /\ ~c[3].ok => (s.pc = "done" /\ s.ret = Error("RESET", n))

\* a node went through RESET (failed), FLUSHALL (ok), RESET (ok) and the run went on
Witness_C2 ==
    /\ st[1].op = "force" /\ st[1].pc = "done" /\ st[1].ret = NoErr
    /\ \E role \in Roles, k \in 0..MaxLeaders :
         LET c == NodeCmds(1, Node(role, k))
         IN  Len(c) = 3 /\ ~c[1].ok /\ c[2].cmd = "FLUSHALL" /\ c[2].ok /\ c[3].ok

\* C3: in forced failover a failed flushall (after a failed reset) is the last
\* command of the operation, which returns the flush error at once.
FlushFailureAborts_C3 ==
    st[1].op = "force" =>
        \A i \in 1..Len(log) :
            (log[i].cmd = "FLUSHALL" /\ ~log[i].ok) =>
                /\ i = Len(log)
                /\ i > 1 /\ log[i - 1].cmd = "RESET" /\ ~log[i - 1].ok
                /\ log[i - 1].node = log[i].node
                /\ st[1].pc = "done"
                /\ st[1].ret = Error("FLUSHALL", log[i].node)

\* the flush failed on a node that is not the last one in the order
Witness_C3 ==
    /\ st[1].op = "force" /\ st[1].pc = "done"
    /\ \E i \in 1..Len(log) :
         /\ log[i].cmd = "FLUSHALL" /\ ~log[i].ok
         /\ log[i].node.role = "leader"
         /\ log[i].node.ord + 1 < st[1].cr.leader
         /\ st[1].cr.follower >= 1

\* C16 as stated: a node whose first CLUSTER RESET succeeds receives no further
\* command in that pass: exactly one RESET, no FLUSHALL.
SingleResetOnSuccess_C16 ==
    \A role \in Roles, k \in 0..MaxFollowers + MaxLeaders :
        LET c == NodeCmds(1, Node(role, k))
        IN  (st[1].op = "force" /\ Len(c) >= 1 /\ c[1].ok) => Len(c) = 1

\* ---------------------------------------------------------------- graceful recovery: claims
ForgetCmds == {"NODES", "TAKEOVER", "FORGET"}

ClusterNodes(s) ==
    {Node("leader", k) : k \in 0..(s.cr.leader - 1)} \cup
    {Node("follower", k) : k \in 0..(s.cr.follower - 1)}

\* how many of the first i - 1 commands are cmd sent through node n
CountBefore(n, cmd, i) ==
    Cardinality({j \in 1..(i - 1) : log[j].node = n /\ log[j].cmd = cmd})

\* node n finished its forget step before position i: its table was read and
\* parsed and one FORGET per id of that table was issued
ForgotBefore(n, i) ==
    \E k \in 1..(i - 1) :
        /\ log[k].cmd = "NODES" /\ log[k].node = n /\ log[k].ok /\ ~ParseErr(log[k].res)
        /\ CountBefore(n, "FORGET", i) = Len(getNodeIds(log[k].res))

\* the leader pairs (i, j), i < j, of a cluster of n leaders
MeshPairs(n) == {p \in (0..(n - 1)) \X (0..(n - 1)) : p[1] < p[2]}

\* the step of graceful recovery a command belongs to
Step(e) ==
    IF e.cmd \in ForgetCmds THEN (IF e.node.role = "leader" THEN 1 ELSE 2)
    ELSE IF e.cmd = "MEET" THEN 3 ELSE 4

\* some command of step k or a later step was issued
Reached(k) == \E i \in 1..Len(log) : Step(log[i]) >= k

\* the position of the first command of step k or a later step
First(k) ==
    CHOOSE i \in 1..Len(log) :
        Step(log[i]) >= k /\ \A j \in 1..(i - 1) : Step(log[j]) < k

\* C4: graceful recovery runs forget-leaders, forget-followers, rebuild-mesh,
\* reattach-followers in this order: a MEET comes only after every leader and
\* every follower finished its forget step, a reattach command (RESET or
\* FLUSHALL, on followers only) only after the last MEET.
GracefulStepOrder_C4 ==
    LET s == st[1]
    IN  s.op = "graceful" =>
        /\ \A i \in 1..(Len(log) - 1) : Step(log[i]) <= Step(log[i + 1])
        /\ Reached(3) =>
              LET f == First(3) IN \A n \in ClusterNodes(s) : ForgotBefore(n, f)
        /\ Reached(4) =>
              LET f == First(4)
              IN  Cardinality({j \in 1..(f - 1) : log[j].cmd = "MEET"})
                      = Cardinality(MeshPairs(s.cr.leader))
        /\ \A i \in 1..Len(log) :
              Step(log[i]) = 4 => log[i].cmd \in FailoverCmds /\ log[i].node.role = "follower"

\* all four steps issued commands
Witness_C4 ==
    /\ st[1].op = "graceful" /\ st[1].pc = "done"
    /\ st[1].cr.leader >= 3 /\ st[1].cr.follower >= 1
    /\ \E i \in 1..Len(log) : log[i].cmd = "FORGET" /\ log[i].node.role = "leader"
    /\ \E i \in 1..Len(log) : log[i].cmd = "FORGET" /\ log[i].node.role = "follower"
    /\ \E i \in 1..Len(log) : log[i].cmd = "MEET"
    /\ \E i \in 1..Len(log) : log[i].cmd = "RESET"

\* C5: in graceful recovery a failed CLUSTER NODES read, or a table that cannot
\* be parsed, in a forget step aborts the recovery with an error; no MEET and
\* no reattach command follows.
ForgetReadFailureAborts_C5 ==
    LET s == st[1]
    IN  s.op = "graceful" =>
        \A i \in 1..Len(log) :
            log[i].cmd = "NODES" =>
                /\ ~log[i].ok =>
                      /\ i = Len(log) /\ s.pc = "done"
                      /\ s.ret = Error("NODES", log[i].node)
                /\ (log[i].ok /\ ParseErr(log[i].res)) =>
                      /\ \A j \in (i + 1)..Len(log) :
                            log[j].cmd \notin {"MEET", "RESET", "FLUSHALL", "FORGET", "NODES"}
                      /\ IF TextContains(log[i].res, MYSELF_SLAVE)
                         THEN \/ i = Len(log) /\ s.pc = "fg_takeover"
                              \/ /\ Len(log) = i + 1 /\ log[i + 1].cmd = "TAKEOVER"
                                 /\ s.pc = "done"
                                 /\ s.ret = IF log[i + 1].ok
                                            THEN Error("PARSE", log[i].node)
                                            ELSE Error("TAKEOVER", log[i].node)
                         ELSE /\ i = Len(log) /\ s.pc = "done"
                              /\ s.ret = Error("PARSE", log[i].node)

\* the table of a node could not be parsed while leaders to meet and followers
\* to reattach exist
Witness_C5 ==
    /\ st[1].op = "graceful" /\ st[1].pc = "done"
    /\ st[1].cr.leader >= 2 /\ st[1].cr.follower >= 1
    /\ st[1].ret.cmd = "PARSE"
    /\ \E i \in 1..Len(log) : log[i].cmd = "FORGET"

\* the MEET commands of the log as pairs <<from ordinal, target ordinal>>
Meets ==
    LET m == SelectSeq(log, LAMBDA e : e.cmd = "MEET")
    IN  [k \in 1..Len(m) |-> <<m[k].node.ord, m[k].peer.ord>>]

LexLess(p, q) == p[1] < q[1] \/ (p[1] = q[1] /\ p[2] < q[2])

\* the mesh rebuild of the run is over
MeshDone(s) ==
    s.pc \in {"fo_reset", "fo_flush", "fo_reset2"} \/ (s.pc = "done" /\ s.ret = NoErr)

\* C6: the mesh rebuild over N leaders issues MEET from leader i to leader j for
\* every pair i < j exactly once, in strictly ascending (i, j) order, never with
\* i >= j, and none at all for N <= 1.
MeshPairsAscending_C6 ==
    LET s == st[1]
        N == s.cr.leader
        m == Meets
    IN  s.op = "graceful" =>
        /\ \A k \in 1..Len(m) : m[k][1] < m[k][2] /\ m[k][1] >= 0 /\ m[k][2] <= N - 1
        /\ \A i \in 1..Len(log) :
              log[i].cmd = "MEET" =>
                  /\ log[i].node.role = "leader" /\ log[i].peer.role = "leader"
                  /\ log[i].arg \in {getRedisServerIP(log[i].peer, f) : f \in BOOLEAN}
        /\ \A k \in 1..(Len(m) - 1) : LexLess(m[k], m[k + 1])
        /\ MeshDone(s) => {m[k] : k \in 1..Len(m)} = MeshPairs(N)
        /\ N <= 1 => Len(m) = 0

\* the mesh of three or more leaders was rebuilt
Witness_C6 ==
    /\ st[1].op = "graceful" /\ MeshDone(st[1])
    /\ st[1].cr.leader >= 3
    /\ Len(Meets) = Cardinality(MeshPairs(st[1].cr.leader))
    /\ \E i \in 1..Len(log) : log[i].cmd = "MEET" /\ ~log[i].ok

\* the commands of the forget step after which the FORGETs of the table read
\* at position i start: the read itself, or the TAKEOVER that follows it
ForgetBase(i) == IF TextContains(log[i].res, MYSELF_SLAVE) THEN i + 1 ELSE i

\* the table read at position i is one whose ids are to be forgotten
ForgetsFollow(i) ==
    /\ log[i].cmd = "NODES" /\ log[i].ok /\ ~ParseErr(log[i].res)
    /\ (TextContains(log[i].res, MYSELF_SLAVE) /\ i + 1 <= Len(log)) => log[i + 1].ok

\* C14: in the forget step every node processed sends, through its own client,
\* one CLUSTER FORGET for every node id of the table read from that same node,
\* its own id included, in table order; a failing FORGET stops neither the
\* FORGETs that remain for the node nor those of later nodes and is never the
\* error the step returns.
ForgetEveryId_C14 ==
    LET s == st[1]
    IN  s.op = "graceful" =>
        /\ \A i \in 1..Len(log) :
              ForgetsFollow(i) =>
                  LET base == ForgetBase(i)
                      ids == Len(log[i].res)
                  IN  /\ \A l \in 1..ids :
                            IF base + l <= Len(log)
                            THEN /\ log[base + l].cmd = "FORGET"
                                 /\ log[base + l].node = log[i].node
                                 /\ log[base + l].addr = log[i].addr
                                 /\ log[base + l].arg = log[i].res[l][1]
                            ELSE /\ s.pc \in {"fg_takeover", "fg_forget"}
                                 /\ Node(s.role, s.podCount) = log[i].node
                      /\ base + ids + 1 <= Len(log) =>
                            ~(log[base + ids + 1].cmd = "FORGET"
                                  /\ log[base + ids + 1].node = log[i].node)
        /\ \A j \in 1..Len(log) :
              log[j].cmd = "FORGET" =>
                  /\ j > 1
                  /\ log[j - 1].node = log[j].node
                  /\ \/ log[j - 1].cmd = "FORGET"
                     \/ log[j - 1].cmd \in {"NODES", "TAKEOVER"} /\ log[j - 1].ok
        /\ s.ret.cmd # "FORGET"

\* a FORGET failed, the node went on with its next id, a later node sent its
\* own FORGETs and both forget steps returned without error
Witness_C14 ==
    /\ st[1].op = "graceful" /\ st[1].ret = NoErr
    /\ st[1].pc \notin {"idle", "fg_nodes", "fg_takeover", "fg_forget"}
    /\ \E j \in 1..Len(log) :
         /\ log[j].cmd = "FORGET" /\ ~log[j].ok /\ log[j].node = Node("leader", 0)
         /\ j < Len(log) /\ log[j + 1].cmd = "FORGET" /\ log[j + 1].node = log[j].node
         /\ \E k \in (j + 1)..Len(log) :
              log[k].cmd = "FORGET" /\ log[k].node # log[j].node

\* the table shows the slave flag in the row of the node it was read from
OwnRowSlave(text) ==
    \E l \in 1..Len(text) :
        /\ Len(text[l]) >= 3
        /\ \E p \in 1..Len(text[l][3]) : text[l][3][p] = "myself"
        /\ \E p \in 1..Len(text[l][3]) : text[l][3][p] = "slave"

\* C15: in the forget step a node whose own row shows the slave flag is sent
\* CLUSTER FAILOVER TAKEOVER right after its table was read and before any
\* FORGET it sends; a node whose own row does not show it is never sent
\* TAKEOVER; a failed TAKEOVER is the last command and the error returned.
TakeoverBeforeForget_C15 ==
    LET s == st[1]
    IN  s.op = "graceful" =>
        /\ \A i \in 1..Len(log) :
              (log[i].cmd = "NODES" /\ log[i].ok) =>
                  IF OwnRowSlave(log[i].res)
                  THEN IF i = Len(log)
                       THEN s.pc = "fg_takeover" /\ Node(s.role, s.podCount) = log[i].node
                       ELSE /\ log[i + 1].cmd = "TAKEOVER"
                            /\ log[i + 1].node = log[i].node
                            /\ log[i + 1].addr = log[i].addr
                  ELSE i < Len(log) => log[i + 1].cmd # "TAKEOVER"
        /\ \A j \in 1..Len(log) :
              log[j].cmd = "TAKEOVER" =>
                  /\ j > 1 /\ log[j - 1].cmd = "NODES" /\ log[j - 1].node = log[j].node
                  /\ OwnRowSlave(log[j - 1].res)
                  /\ ~log[j].ok =>
                        /\ j = Len(log) /\ s.pc = "done"
                        /\ s.ret = Error("TAKEOVER", log[j].node)
        /\ \A j \in 1..Len(log) :
              log[j].cmd = "FORGET" =>
                  \E i \in 1..(j - 1) :
                      /\ log[i].cmd = "NODES" /\ log[i].node = log[j].node
                      /\ OwnRowSlave(log[i].res) =>
                            (i + 1 < j /\ log[i + 1].cmd = "TAKEOVER" /\ log[i + 1].ok)

\* a follower took over and then sent its FORGETs, after a leader that has a
\* replica in its table sent its own without a TAKEOVER
Witness_C15 ==
    /\ st[1].op = "graceful"
    /\ \E j \in 1..(Len(log) - 1) :
         /\ log[j].cmd = "TAKEOVER" /\ log[j].ok /\ log[j].node.role = "follower"
         /\ log[j + 1].cmd = "FORGET" /\ log[j + 1].node = log[j].node
    /\ \E i \in 1..(Len(log) - 1) :
         /\ log[i].cmd = "NODES" /\ log[i].node.role = "leader"
         /\ TextContains(log[i].res, SLAVE) /\ log[i + 1].cmd = "FORGET"

\* a failure of a forget step: a table that was not read or not parsed, or a
\* TAKEOVER that failed
ForgetStepFailed ==
    \E i \in 1..Len(log) :
        \/ log[i].cmd = "NODES" /\ (~log[i].ok \/ ParseErr(log[i].res))
        \/ log[i].cmd = "TAKEOVER" /\ ~log[i].ok

\* C19: graceful recovery returns an error exactly when a forget step failed (a
\* read, a parse or a TAKEOVER); a failed MEET stops neither the MEETs that
\* remain nor the reattachment, and no failure of a MEET or of a reattachment
\* command is returned.
GracefulErrorsOnlyFromForget_C19 ==
    LET s == st[1]
    IN  (s.op = "graceful" /\ s.pc = "done") =>
        /\ s.ret # NoErr <=> ForgetStepFailed
        /\ s.ret.cmd \in {"nil", "NODES", "PARSE", "TAKEOVER"}
        /\ \A i \in 1..Len(log) :
              (log[i].cmd = "MEET" /\ ~log[i].ok) =>
                  /\ Len(Meets) = Cardinality(MeshPairs(s.cr.leader))
                  /\ s.cr.follower >= 1 =>
                        \E j \in (i + 1)..Len(log) :
                            log[j].cmd = "RESET" /\ log[j].node.role = "follower"
        /\ \A i \in 1..Len(log) :
              (log[i].cmd \in {"MEET", "RESET", "FLUSHALL"} /\ ~log[i].ok) => s.ret = NoErr

\* a MEET failed that was not the last one, the reattachment of a follower
\* failed for good, and the recovery returned no error
Witness_C19 ==
    /\ st[1].op = "graceful" /\ st[1].pc = "done" /\ st[1].ret = NoErr
    /\ \E i \in 1..Len(log) :
         /\ log[i].cmd = "MEET" /\ ~log[i].ok
         /\ i < Len(log) /\ log[i + 1].cmd = "MEET"
    /\ \E i \in 1..Len(log) : log[i].node.role = "follower" /\ FatalAt(i)

\* ---------------------------------------------------------------- formation: claims
\* the add-node commands of the k-th call of ExecuteRedisReplicationCommand
AddNodes(k) == SelectSeq(log, LAMBDA e : e.cmd = "ADDNODE" /\ e.call = k)

\* C7: replica attachment is idempotent: a call that follows another one, with
\* no topology change but the effects of the first, issues no add-node command
\* (stated for the runs in which no lookup, read or command failed).
ReplicationIdempotent_C7 ==
    faults = 0 => \A k \in 2..MaxCalls : Len(AddNodes(k)) = 0

\* the same on IPv4 pods only
ReplicationIdempotentV4 ==
    (faults = 0 /\ ~ipv6) => \A k \in 2..MaxCalls : Len(AddNodes(k)) = 0

\* a read of the topology that failed or could not be parsed
ReadFailed(e) == e.cmd = "NODES" /\ (~e.ok \/ ParseErr(e.res))

\* what getRedisServerIP hands out when the pod lookup failed
Unresolved == <<"[", "]">>

\* the command was built from an address whose lookup failed
UsesFailedLookup(e) ==
    \/ e.addr = Unresolved
    \/ e.cmd = "MEET" /\ e.arg = Unresolved
    \/ e.cmd \in {"CREATE", "ADDNODE"} /\ \E k \in 1..Len(e.arg) : Contains(e.arg[k], Unresolved)

\* C9: in every operation a failure to read the topology or to resolve an
\* address aborts the operation: no command is issued after it and the
\* failure reaches the caller.
ReadFailureAborts_C9 ==
    \A i \in 1..Len(log) :
        /\ ~UsesFailedLookup(log[i])
        /\ ReadFailed(log[i]) =>
              /\ \A j \in (i + 1)..Len(log) :
                    log[j].run # log[i].run \/ log[j].call # log[i].call
              /\ st[log[i].run].calls = log[i].call => st[log[i].run].ret # NoErr

\* ---------------------------------------------------------------- topology reader: claims
\* the flag field of row i of the table holds "fail"
FlagHasFail(nodes, i) == \E p \in 1..Len(nodes[i][3]) : nodes[i][3][p] = "fail"

\* the link-state field of row i of the table holds "disconnected"
LinkDisconnected(nodes, i) ==
    \E p \in 1..(Len(nodes[i][8]) - 1) :
        nodes[i][8][p] = "dis" /\ nodes[i][8][p + 1] = "connected"

UnhealthyRows(nodes) ==
    {i \in 1..Len(nodes) : FlagHasFail(nodes, i) \/ LinkDisconnected(nodes, i)}

\* C11: CheckRedisClusterState returns the number of rows of the table whose
\* flag field contains "fail" or whose link state contains "disconnected", a
\* row with both counted once; 0 for a table of healthy rows.
UnhealthyCount_C11 ==
    LET s == st[1]
    IN  (s.op = "state" /\ s.pc = "done") =>
        /\ s.count = Cardinality(UnhealthyRows(s.nodes))
        /\ (\A i \in 1..Len(s.nodes) :
               s.nodes[i][3] \in {MASTER, SLAVE, MYSELF_SLAVE} /\ s.nodes[i][8] = CONNECTED)
              => s.count = 0

\* a table with a healthy row, a row that is failed and disconnected at once and
\* a row that is only disconnected
Witness_C11 ==
    /\ st[1].op = "state" /\ st[1].pc = "done" /\ st[1].count = 2
    /\ Len(st[1].nodes) = 3
    /\ \E i \in 1..3 : FlagHasFail(st[1].nodes, i) /\ LinkDisconnected(st[1].nodes, i)
    /\ \E i \in 1..3 : ~FlagHasFail(st[1].nodes, i) /\ LinkDisconnected(st[1].nodes, i)

\* row i of the table carries the atoms of sub, in order, in its flag field
FlagHas(nodes, i, sub) ==
    \E p \in 0..(Len(nodes[i][3]) - Len(sub)) :
        SubSeq(nodes[i][3], p + 1, p + Len(sub)) = sub

\* C12: CheckRedisNodeCount returns the number of rows for the empty filter,
\* else the number of rows whose flag field contains "master" for "leader",
\* "slave" for "follower", and the filter itself for any other role name.
NodeCount_C12 ==
    LET s == st[1]
        mapped == CASE s.nodeType = "leader" -> <<"master">>
                    [] s.nodeType = "follower" -> <<"slave">>
                    [] OTHER -> <<s.nodeType>>
    IN  (s.op = "count" /\ s.pc = "done") =>
        IF s.nodeType = "" THEN s.count = Len(s.nodes)
        ELSE s.count = Cardinality({i \in 1..Len(s.nodes) : FlagHas(s.nodes, i, mapped)})

\* leaders were counted in a table that also holds followers
Witness_C12 ==
    /\ st[1].op = "count" /\ st[1].pc = "done" /\ st[1].nodeType = "leader"
    /\ st[1].count = 2 /\ Len(st[1].nodes) = 3

\* the address field of a row up to its first ":" (all of it when it has none)
IPPortion(addr) ==
    LET colons == {p \in 1..Len(addr) : addr[p] = ":"}
    IN  IF colons = {} THEN addr
        ELSE SubSeq(addr, 1, (CHOOSE p \in colons : \A q \in colons : p <= q) - 1)

\* C13: checkRedisNodePresence answers true exactly when some row's address
\* field, split on ":", has the candidate as its first portion; false on an
\* empty table.
Presence_C13 ==
    LET s == st[1]
    IN  (s.op = "presence" /\ s.pc = "done") =>
        /\ s.present <=> \E i \in 1..Len(s.nodes) : IPPortion(s.nodes[i][2]) = s.nodeName
        /\ s.nodes = <<>> => ~s.present

\* the candidate was found in a row that is not the first one
Witness_C13 ==
    /\ st[1].op = "presence" /\ st[1].pc = "done" /\ st[1].present
    /\ Len(st[1].nodes) >= 2
    /\ IPPortion(st[1].nodes[1][2]) # st[1].nodeName

\* the ordinals of the followers the k-th call issued add-node for, in order
AddedOrds(k) ==
    LET a == AddNodes(k) IN [i \in 1..Len(a) |-> a[i].peer.ord]

\* pod n as an argument of the cluster tool, resolved or not
ToolAddrs(n) == {getRedisServerIP(n, f) \o <<":", "6379">> : f \in BOOLEAN}

\* C17: replica attachment takes the follower ordinals 0..F-1 in ascending
\* order, names follower i and leader i in the add-node command, and a failed
\* add-node does not keep any later follower that is not in the table read by
\* the call from getting its own add-node.
AttachmentOrder_C17 ==
    LET s == st[1]
        k == s.calls
        ords == AddedOrds(k)
    IN  s.op = "replicate" =>
        /\ \A i \in 1..(Len(ords) - 1) : ords[i] < ords[i + 1]
        /\ \A i \in 1..Len(ords) : ords[i] \in 0..(s.cr.follower - 1)
        /\ \A i \in 1..Len(log) :
              (log[i].cmd = "ADDNODE" /\ log[i].call = k) =>
                  /\ log[i].node = Node("leader", 0)
                  /\ log[i].peer.role = "follower"
                  /\ log[i].arg[1] \in ToolAddrs(log[i].peer)
                  /\ log[i].arg[2] \in ToolAddrs(Node("leader", log[i].peer.ord))
        /\ \A j \in 0..(s.cr.follower - 1) :
              (s.pc = "done" \/ (s.pc = "rp_follower" /\ j < s.podCount)) =>
                  \/ \E i \in 1..Len(ords) : ords[i] = j
                  \/ \E f \in BOOLEAN :
                        checkRedisNodePresence(s.nodes, getRedisServerIP(Node("follower", j), f))

\* the add-node of follower 0 failed and follower 1 got its own
Witness_C17 ==
    /\ st[1].op = "replicate" /\ st[1].pc = "done" /\ st[1].cr.follower >= 2
    /\ \E i \in 1..(Len(log) - 1) :
         /\ log[i].cmd = "ADDNODE" /\ ~log[i].ok /\ log[i].peer.ord = 0
         /\ log[i + 1].cmd = "ADDNODE" /\ log[i + 1].peer.ord = 1
         /\ log[i + 1].call = log[i].call

\* C18 as stated: each follower is skipped exactly when its address is in the
\* table leader-0 holds at the moment the follower is processed (stated for the
\* runs in which no lookup, read or command failed).
FreshDecision_C18 ==
    [][ (st[1].pc = "rp_follower" /\ st'[1] # st[1] /\ faults' = 0) =>
            LET f == Node("follower", st[1].podCount)
                current == checkRedisNodePresence(csvRecords(topology),
                                                  getRedisServerIP(f, TRUE))
            IN  (log' = log) <=> current ]_vars

\* ---------------------------------------------------------------- command server: claims
\* C8: requests for the same cluster are serialized: between two commands of
\* one run no other run issues a command on that cluster.
NoInterleaving_C8 ==
    \A i \in 1..Len(log), k \in 1..Len(log) :
        (i < k /\ log[i].run = log[k].run) =>
            \A j \in (i + 1)..(k - 1) :
                log[j].cluster = log[i].cluster => log[j].run = log[i].run

\* the operation behind the request hit an error it returns
OperationFailed(s) ==
    \E i \in 1..Len(log) :
        \/ s.op = "force" /\ FatalAt(i)
        \/ s.op = "graceful" /\ log[i].cmd \in ForgetCmds /\ ReadFailed(log[i])
        \/ s.op = "graceful" /\ log[i].cmd = "TAKEOVER" /\ ~log[i].ok

\* C10: both endpoints answer 200 exactly when the fetch of the cluster spec
\* and the operation returned no error, else 500 carrying the error; an error
\* of the operation is never answered with 200.
ResponseMatchesOutcome_C10 ==
    LET s == st[1]
    IN  s.http =>
        /\ s.pc # "done" => s.resp = 0
        /\ s.pc = "done" =>
              /\ s.resp \in {200, 500}
              /\ s.resp = 200 <=> (s.fetched /\ s.ret = NoErr)
              /\ s.resp = 200 <=> (s.fetched /\ ~OperationFailed(s))
              /\ s.resp = 500 => (s.body = s.ret /\ s.body # NoErr)
              /\ ~s.fetched => (s.body = Error("GET", NoNode) /\ log = <<>>)

\* a forced failover that ran into a failed flushall was answered with 500
Witness_C10 ==
    /\ st[1].http /\ st[1].pc = "done" /\ st[1].fetched
    /\ st[1].op = "force" /\ st[1].resp = 500 /\ st[1].ret.cmd = "FLUSHALL"

\* C20: graceful recovery sends CLUSTER RESET and FLUSHALL to followers only,
\* never to a leader; forced failover sends nothing but CLUSTER RESET and
\* FLUSHALL: no FORGET, no MEET, no TAKEOVER to any node.
DisjointCommandKinds_C20 ==
    \A i \in 1..Len(log) :
        LET s == st[log[i].run]
        IN  /\ s.op = "graceful" =>
                  (log[i].cmd \in FailoverCmds => log[i].node.role = "follower")
            /\ s.op = "force" =>
                  /\ log[i].cmd \notin {"FORGET", "MEET", "TAKEOVER"}
                  /\ log[i].cmd \in FailoverCmds

\* a graceful recovery of several leaders and a follower ran to its end: the
\* leaders were read, forgotten and met, the follower was reset
Witness_C20 ==
    /\ st[1].http /\ st[1].op = "graceful" /\ st[1].pc = "done" /\ st[1].ret = NoErr
    /\ st[1].cr.leader >= 2 /\ st[1].cr.follower >= 1
    /\ \E i \in 1..Len(log) : log[i].cmd = "MEET"
    /\ \E i \in 1..Len(log) : log[i].cmd = "RESET" /\ log[i].node.role = "follower"
    /\ \A i \in 1..Len(log) : log[i].node.role = "leader" => log[i].cmd \notin FailoverCmds

\* ---------------------------------------------------------------- specifications
Init ==
    /\ st = [r \in Runs |-> IdleRun]
    /\ log = <<>>
    /\ topology = <<>>
    /\ ipv6 \in BOOLEAN
    /\ faults = 0

NextFailover ==
    \/ ExecuteFailoverOperation(1)
    \/ FailoverReset(1)
    \/ FailoverFlush(1)
    \/ FailoverResetAgain(1)

SpecFailover == Init /\ [][NextFailover]_vars

\* the two forget passes of a recovery, up to the return of executeClusterForget
NextForget ==
    \/ ExecuteGracefulFailOverOperation(1)
    \/ ForgetNodes(1)
    \/ ForgetTakeover(1)
    \/ ForgetNode(1)

NextGraceful ==
    \/ ExecuteGracefulFailOverOperation(1)
    \/ ForgetNodes(1)
    \/ ForgetTakeover(1)
    \/ ForgetNode(1)
    \/ ClusterMeet(1)
    \/ FailoverReset(1)
    \/ FailoverFlush(1)
    \/ FailoverResetAgain(1)

NextFormation ==
    \/ ExecuteRedisClusterCommand(1)
    \/ ExecuteRedisReplicationCommand(1)
    \/ ReplicationSkip(1)
    \/ ReplicationAdd(1)
    \/ MemberJoins

SpecFormation == Init /\ [][NextFormation]_vars

\* replica attachment alone, called again and again on the cluster it builds
NextAttachment ==
    \/ ExecuteRedisReplicationCommand(1)
    \/ ReplicationSkip(1)
    \/ ReplicationAdd(1)

SpecAttachment == Init /\ [][NextAttachment]_vars

\* recovery never inspects an address: one address family is enough here
InitV4 == Init /\ ~ipv6

SpecGraceful == InitV4 /\ [][NextGraceful]_vars

SpecForget == InitV4 /\ [][NextForget]_vars

NextServer ==
    \/ resetClusterHandler(1, CRs)
    \/ forceResetClusterHandler(1, CRs)
    \/ ForgetNodes(1)
    \/ ForgetTakeover(1)
    \/ ForgetNode(1)
    \/ ClusterMeet(1)
    \/ FailoverReset(1)
    \/ FailoverFlush(1)
    \/ FailoverResetAgain(1)

\* one request from arrival to response
SpecServer == InitV4 /\ [][NextServer]_vars

\* the cluster specs used when two requests run at once
SmallCRs == {cr \in CRs : cr.leader <= 2 /\ cr.follower <= 1}

\* the model follows two requests up to their first MaxInterleave commands
Within == Len(log) < MaxInterleave

NextConcurrent ==
    \/ \E r \in Runs : Within /\ resetClusterHandler(r, SmallCRs)
    \/ \E r \in Runs : Within /\ forceResetClusterHandler(r, SmallCRs)
    \/ \E r \in Runs : Within /\ ForgetNodes(r)
    \/ \E r \in Runs : Within /\ ForgetTakeover(r)
    \/ \E r \in Runs : Within /\ ForgetNode(r)
    \/ \E r \in Runs : Within /\ ClusterMeet(r)
    \/ \E r \in Runs : Within /\ FailoverReset(r)
    \/ \E r \in Runs : Within /\ FailoverFlush(r)
    \/ \E r \in Runs : Within /\ FailoverResetAgain(r)

\* http.ListenAndServe serves every request in its own goroutine
SpecConcurrent == InitV4 /\ [][NextConcurrent]_vars

\* the table leader-0 holds when a reader is called: any table of MaxRows rows
InitReader ==
    /\ st = [r \in Runs |-> IdleRun]
    /\ log = <<>>
    /\ topology \in ReaderTables
    /\ ipv6 \in BOOLEAN
    /\ faults = 0

NextReader ==
    \/ CheckRedisClusterState(1)
    \/ CheckRedisNodeCount(1)
    \/ NodePresence(1)

SpecReader == InitReader /\ [][NextReader]_vars

====
